---- MODULE Spec2Model ----
(***************************************************************************)
(* A model of metaflow/plugins/cards/card_client.py: the Card and          *)
(* CardContainer classes, get_cards and _get_flow_datastore.               *)
(*                                                                         *)
(* Python values.  A str is a sequence of tokens ("" is <<>>, one token is *)
(* one or more characters, "/" is always a token of its own).  An optional *)
(* value is a sequence of length 0 (None) or 1 (the value).  An object is  *)
(* a record carrying its type name.                                        *)
(*                                                                         *)
(* Collaborators (Task, namespace, resumed_info, resolve_paths_from_task,  *)
(* CardDatastore, DATASTORES, FlowDataStore) are not part of the file; the *)
(* values they return are drawn from small sets at the step that calls     *)
(* them, and each call is appended to a log.                               *)
(*                                                                         *)
(* Three specifications share the variables:                               *)
(*   Spec          one call of get_cards, statement by statement;          *)
(*   SpecContainer the operations of one CardContainer;                    *)
(*   SpecCard      the operations of one Card.                             *)
(***************************************************************************)
EXTENDS Integers, Sequences, FiniteSets

\* Longest task string passed to get_cards.
MaxStrLen == 4
\* Longest metadata list of a task.
MaxMeta == 2
\* Longest list of card paths a container is built from.
MaxPaths == 2
\* Most generators created from one container.
MaxIters == 2
\* Most calls of get(), view() and _repr_html_() on one Card.
MaxOps == 3

VARIABLES
    \* ---- get_cards (Spec) ----
    pc,                   \* position in get_cards
    arg_task,             \* the `task` argument as passed
    card_id,              \* the `id` argument
    arg_type,             \* the `type` argument
    follow_resumed,       \* the `follow_resumed` argument
    task,                 \* local `task`: the argument, then the Task handle
    origin_bound,         \* whether local `origin_taskpathspec` is bound
    origin_taskpathspec,  \* its value when bound
    flow_datastore,       \* optional result of _get_flow_datastore
    resolved,             \* optional result of resolve_paths_from_task
    calls,                \* log of the collaborator calls of this get_cards
    outcome,              \* how get_cards ended
    \* ---- CardContainer (SpecContainer) ----
    container,            \* optional CardContainer
    ctor,                 \* the arguments the container was constructed with
    iters,                \* the generators made by __iter__
    last,                 \* the last operation on the container and its result
    \* ---- Card (SpecCard) ----
    card,                 \* optional Card
    html_calls,           \* outcomes of get_card_html for the card, in order
    got,                  \* values returned by get() (also inside view/_repr_html_)
    ops                   \* number of operations called on the card

getcards_vars == <<pc, arg_task, card_id, arg_type, follow_resumed, task,
                   origin_bound, origin_taskpathspec, flow_datastore, resolved,
                   calls, outcome>>
container_vars == <<container, ctor, iters, last>>
card_vars == <<card, html_calls, got, ops>>
vars == <<getcards_vars, container_vars, card_vars>>

----------------------------------------------------------------------------
\* Python values

None == <<>>
Some(v) == <<v>>
Val(o) == o[1]

\* bool(x) of an optional str: None and "" are false.
Truthy(o) == o # None /\ Val(o) # <<>>

\* All sequences over S of length at most n.
SeqUpTo(S, n) == UNION {[1..k -> S] : k \in 0..n}

\* str.split("/"): the tokens between the separators, one more than separators.
RECURSIVE SplitFrom(_, _, _)
SplitFrom(s, i, cur) ==
    IF i > Len(s) THEN <<cur>>
    ELSE IF s[i] = "/" THEN <<cur>> \o SplitFrom(s, i + 1, <<>>)
    ELSE SplitFrom(s, i + 1, Append(cur, s[i]))

Split(s) == SplitFrom(s, 1, <<>>)

\* os.path.join(a, b) of two path strings.
PathJoin(a, b) ==
    IF b # <<>> /\ b[1] = "/" THEN b
    ELSE IF a = <<>> \/ a[Len(a)] = "/" THEN a \o b
    ELSE a \o <<"/">> \o b

\* metaflow_config.DATASTORE_CARD_SUFFIX
DATASTORE_CARD_SUFFIX == <<"mf.cards">>

----------------------------------------------------------------------------
\* Inputs and collaborator results

Alphabet == {"a", "/"}
Strings == SeqUpTo(Alphabet, MaxStrLen)

\* A check that only looks for too few components.
IsPathspecAtLeast(task_str) == Len(Split(task_str)) >= 4

\* Line 191: whether the task string splits into exactly 4 components.
IsPathspec(task_str) == Len(Split(task_str)) = 4

\* metaflow.client.Task(pathspec): a handle on the task.
Task(pathspec) == [type |-> "Task", pathspec |-> pathspec]
Str(s) == [type |-> "str", pathspec |-> s]
Other(ty) == [type |-> ty, pathspec |-> <<>>]

\* Handles the caller may pass: the client's Task pathspecs have 4 components.
TaskHandles == {Task(s) : s \in {x \in Strings : Len(Split(x)) = 4}}
OtherTypes == {"int", "NoneType"}
TaskArgs == {Str(s) : s \in Strings} \cup TaskHandles \cup {Other(ty) : ty \in OtherTypes}

Filters == {None, Some(<<"default">>)}

\* resumed_info(task): none, an empty string or an origin pathspec.
OriginPathspecs == {<<"a", "/", "/", "/">>}
ResumedInfos == {None, Some(<<>>)} \cup {Some(o) : o \in OriginPathspecs}

\* task.metadata: an ordered list of name/value entries.
Meta(n, v) == [name |-> n, value |-> v]
MetaEntries == {Meta("ds-type", <<"local">>), Meta("ds-type", <<"s3">>),
                Meta("ds-root", <<"/", "r">>), Meta("user", <<"x">>)}
MetaLists == SeqUpTo(MetaEntries, MaxMeta)

\* CardDatastore.get_storage_root(ds_type): a path or undefined.
StorageRoots == {None, Some(<<"/", "cards">>)}

\* Card paths: <<type, hash, id>> stands for the storage path of a card
\* named by them; card_info_from_path reads them back.
CardPaths == {<<<<"default">>, <<"h1">>, None>>, <<<<"blank">>, <<"h2">>, Some(<<"id1">>)>>}
PathLists == SeqUpTo(CardPaths, MaxPaths)

----------------------------------------------------------------------------
\* Objects built by this file and its collaborators

\* One collaborator call: the function, its arguments, what it returned.
Call(fn, a, ret) == [fn |-> fn, a |-> a, ret |-> ret]

\* metaflow.datastore.DATASTORES[ds_type]
DATASTORES(ds_type) ==
    CASE ds_type = <<"local">> -> "LocalStorage"
      [] ds_type = <<"s3">> -> "S3Storage"

FlowDataStore(flow_name, environment, storage_impl, ds_root) ==
    [type |-> "FlowDataStore", flow_name |-> flow_name, environment |-> environment,
     storage_impl |-> storage_impl, ds_root |-> ds_root]

\* The card datastore resolve_paths_from_task builds on a flow datastore.
CardDatastore(fds, pathspec) ==
    [type |-> "CardDatastore", flow_datastore |-> fds, pathspec |-> pathspec]

\* CardContainer.__init__
CardContainerInit(card_paths, card_ds, from_resumed, origin_pathspec) ==
    [_card_paths |-> card_paths,
     _card_ds |-> card_ds,
     _current |-> 0,
     _high |-> Len(card_paths),
     from_resumed |-> from_resumed,
     origin_pathspec |-> origin_pathspec]

\* The constructor arguments of a container, kept to compare it with later.
CtorArgs(card_paths, from_resumed, origin_pathspec) ==
    [card_paths |-> card_paths, from_resumed |-> from_resumed,
     origin_pathspec |-> origin_pathspec]

\* The last operation on the container: its name, its integer argument, and
\* what it did.
NoResult == [raised |-> "", value |-> None, cards |-> <<>>, calls |-> <<>>]
Op(op, index, r) ==
    [op |-> op, index |-> index, raised |-> r.raised, value |-> r.value,
     cards |-> r.cards, calls |-> r.calls]

\* How a call ended.
Running == [kind |-> "running", exc |-> "", payload |-> None]
Returned == [kind |-> "return", exc |-> "", payload |-> None]
Raise(exc, payload) == [kind |-> "raise", exc |-> exc, payload |-> Some(payload)]

----------------------------------------------------------------------------
\* Card

\* get_card_html(path): a string, or an error of the storage that propagates.
HtmlValues == {<<>>, <<"<html>">>}
FetchOutcomes == {[raised |-> FALSE, value |-> h] : h \in HtmlValues}
                 \cup {[raised |-> TRUE, value |-> <<>>]}

\* Card.__init__
CardInit(card_ds, type, path, hash, id, html, created_on, from_resumed, origin_pathspec) ==
    [_path |-> path,
     _html |-> html,
     _created_on |-> created_on,
     _card_ds |-> card_ds,
     _card_id |-> id,
     hash |-> hash,
     type |-> type,
     from_resumed |-> from_resumed,
     origin_pathspec |-> origin_pathspec,
     _temp_file |-> None]

\* A cache test by truth value: an empty body counts as not cached.
IsCachedTruthy(cd) == Truthy(cd._html)

\* Line 65: whether get() answers from the cache.
IsCached(cd) == cd._html # None

\* Card.get() when get_card_html, if called, ends as `fetch`: the card after
\* the call, whether it raised, what it returned, what the get() in it
\* returned, and whether storage was called.
CardGet(cd, fetch) ==
    IF IsCached(cd)
    THEN [card |-> cd, raised |-> FALSE, ret |-> cd._html, html |-> cd._html,
          fetched |-> FALSE]
    ELSE IF fetch.raised
         THEN [card |-> cd, raised |-> TRUE, ret |-> None, html |-> None,
               fetched |-> TRUE]
         ELSE [card |-> [cd EXCEPT !._html = Some(fetch.value)], raised |-> FALSE,
               ret |-> Some(fetch.value), html |-> Some(fetch.value),
               fetched |-> TRUE]

\* Card.view(): a new temporary file, then get(), then the encoded html is
\* written to the file and the file is opened in the browser.
CardView(cd, fetch) ==
    LET r == CardGet([cd EXCEPT !._temp_file = Some(<<>>)], fetch)
    IN IF r.raised THEN [r EXCEPT !.ret = None]
       ELSE [r EXCEPT !.card._temp_file = Some(<<"bytes", Val(r.ret)>>), !.ret = None]

\* The two elements _repr_html_ makes for one card; container_id is uuid4().
EmbedFragments(container_id, html) ==
    <<[tag |-> "script", container_id |-> container_id, body |-> <<>>],
      [tag |-> "div", container_id |-> container_id, body |-> html]>>

\* Card._repr_html_()
CardReprHtml(cd, fetch, container_id) ==
    LET r == CardGet(cd, fetch)
    IN IF r.raised THEN r
       ELSE [r EXCEPT !.ret = Some(EmbedFragments(container_id, Val(r.ret)))]

----------------------------------------------------------------------------
\* CardContainer

\* CardDatastore.card_info_from_path(path)
CardInfoFromPath(path) == [type |-> path[1], hash |-> path[2], id |-> path[3]]

\* list[index] of Python, positions counted from 0: a negative index counts
\* from the end; None stands for IndexError.
PyListGet(list, index) ==
    LET i == IF index < 0 THEN index + Len(list) ELSE index
    IN IF i < 0 \/ i >= Len(list) THEN None ELSE Some(list[i + 1])

\* Line 138: the bounds check of _get_card.
OutOfRange(c, index) == index >= c._high

\* The lookup one position too far.
PathAtNext(c, index) == PyListGet(c._card_paths, index + 1)

\* Line 140: the path _get_card looks up.
PathAt(c, index) == PyListGet(c._card_paths, index)

\* CardContainer._get_card(index)
GetCard(c, index) ==
    IF OutOfRange(c, index) \/ PathAt(c, index) = None
    THEN [NoResult EXCEPT !.raised = "IndexError"]
    ELSE LET path == Val(PathAt(c, index))
             card_info == CardInfoFromPath(path)
             cd == CardInit(c._card_ds, card_info.type, path, card_info.hash,
                            card_info.id, None, None, FALSE, None)
         IN [raised |-> "", value |-> Some(cd), cards |-> <<cd>>,
             calls |-> <<Call("card_info_from_path", path, card_info)>>]

\* A range that stops one short.
IterRangeShort(c) == c._high - 1

\* Line 131: the indices __iter__ goes through are 0 .. IterRange(c) - 1.
IterRange(c) == c._high

\* A generator made by __iter__: how many cards it has yielded, whether it
\* has ended, and the cards it yielded.
NewGenerator == [pos |-> 0, done |-> FALSE, yielded |-> <<>>]

\* next() on generator g of container c: the generator after it, and the result.
GenNext(c, g) ==
    IF g.done \/ g.pos >= IterRange(c)
    THEN [gen |-> [g EXCEPT !.done = TRUE],
          result |-> [NoResult EXCEPT !.raised = "StopIteration"]]
    ELSE LET r == GetCard(c, g.pos)
         IN IF r.raised # ""
            THEN [gen |-> [g EXCEPT !.done = TRUE], result |-> r]
            ELSE [gen |-> [g EXCEPT !.pos = g.pos + 1,
                                    !.yielded = Append(g.yielded, Val(r.value))],
                  result |-> r]

\* CardContainer._make_heading(type); type.title() is kept as an application.
MakeHeading(type) == [tag |-> "h1", container_id |-> 0, body |-> <<"title", type>>]

\* CardContainer._repr_html_() from position idx on, when get_card_html of
\* the card at position k ends as fetches[k + 1]; uuid4() of position k is k.
RECURSIVE ReprFrom(_, _, _)
ReprFrom(c, idx, fetches) ==
    IF idx >= Len(c._card_paths) THEN [NoResult EXCEPT !.value = Some(<<>>)]
    ELSE LET m == GetCard(c, idx)
         IN IF m.raised # "" THEN m
            ELSE LET cd == Val(m.value)
                     g == CardGet(cd, fetches[idx + 1])
                     fetch == Call("get_card_html", cd._path, fetches[idx + 1])
                 IN IF g.raised
                    THEN [raised |-> "StorageError", value |-> None,
                          cards |-> <<g.card>>, calls |-> m.calls \o <<fetch>>]
                    ELSE LET rest == ReprFrom(c, idx + 1, fetches)
                             out == <<MakeHeading(cd.type)>>
                                    \o EmbedFragments(idx + 1, Val(g.ret))
                         IN [raised |-> rest.raised,
                             value |-> IF rest.raised = ""
                                       THEN Some(out \o Val(rest.value)) ELSE None,
                             cards |-> <<g.card>> \o rest.cards,
                             calls |-> m.calls \o <<fetch>> \o rest.calls]

ContainerReprHtml(c, fetches) == ReprFrom(c, 0, fetches)

----------------------------------------------------------------------------
\* _get_flow_datastore

\* The value of the first entry named `name`, or None.
RECURSIVE FirstNamed(_, _)
FirstNamed(metadata, name) ==
    IF metadata = <<>> THEN None
    ELSE IF Head(metadata).name = name THEN Some(Head(metadata).value)
    ELSE FirstNamed(Tail(metadata), name)

\* The value of the last entry named `name`, or None.
RECURSIVE LastNamed(_, _)
LastNamed(metadata, name) ==
    IF metadata = <<>> THEN None
    ELSE IF metadata[Len(metadata)].name = name
         THEN Some(metadata[Len(metadata)].value)
         ELSE LastNamed(SubSeq(metadata, 1, Len(metadata) - 1), name)

\* The scan without its break: the last ds-type entry wins.
DsTypeNoBreak(metadata) == LastNamed(metadata, "ds-type")

\* Lines 220-227: the first ds-type entry.
DsType(metadata) == FirstNamed(metadata, "ds-type")

\* Lines 229-237: get_storage_root's answer, or the ds-root fallback.
DsRoot(metadata, storage_root) ==
    IF storage_root = None
    THEN LET root == FirstNamed(metadata, "ds-root")
         IN IF root = None THEN None
            ELSE Some(PathJoin(Val(root), DATASTORE_CARD_SUFFIX))
    ELSE storage_root

\* _get_flow_datastore(t) when t.metadata is `metadata` and
\* get_storage_root answers `storage_root`: the calls made, whether it raised,
\* and the FlowDataStore it returned.
GetFlowDatastore(t, metadata, storage_root) ==
    LET flow_name == Split(t.pathspec)[1]
        ds_type == DsType(metadata)
        ds_root == DsRoot(metadata, storage_root)
        scan == Call("metadata", t.pathspec, metadata)
        head == <<scan, Call("get_storage_root", ds_type, storage_root)>>
                \o (IF storage_root = None THEN <<scan>> ELSE <<>>)
    IN IF ds_type = None
       THEN [raised |-> TRUE, calls |-> head, value |-> None]
       ELSE LET storage_impl == DATASTORES(Val(ds_type))
                fds == FlowDataStore(flow_name, None, storage_impl, ds_root)
            IN [raised |-> FALSE,
                calls |-> head \o <<Call("DATASTORES", Val(ds_type), storage_impl),
                                    Call("FlowDataStore", fds, fds)>>,
                value |-> Some(fds)]

----------------------------------------------------------------------------
\* get_cards

\* The origin is remembered but the handle is left as it was.
RedirectForgotten(t, origin) == t

\* Lines 203-204: the task the rest of get_cards works on.
Redirect(t, origin) == IF Truthy(origin) THEN Task(Val(origin)) ELSE t

\* Line 212: from_resumed of the returned container.
FromResumed(origin) == origin # None

NoContainer ==
    /\ container = None
    /\ ctor = None
    /\ iters = <<>>
    /\ last = Op("init", 0, NoResult)

NoCard ==
    /\ card = None
    /\ html_calls = <<>>
    /\ got = <<>>
    /\ ops = 0

Init ==
    /\ pc = "L189"
    /\ arg_task \in TaskArgs
    /\ task = arg_task
    /\ card_id \in Filters
    /\ arg_type \in Filters
    /\ follow_resumed \in BOOLEAN
    /\ origin_bound = FALSE
    /\ origin_taskpathspec = None
    /\ flow_datastore = None
    /\ resolved = None
    /\ calls = <<>>
    /\ outcome = Running
    /\ NoContainer
    /\ NoCard

\* Lines 188-199
Normalize ==
    /\ pc = "L189"
    /\ IF task.type = "str"
       THEN IF ~IsPathspec(task.pathspec)
            THEN /\ outcome' = Raise("IncorrectPathspecException", task)
                 /\ pc' = "raised"
                 /\ UNCHANGED <<task, calls>>
            ELSE /\ calls' = calls \o <<Call("namespace", None, None),
                                        Call("Task", task.pathspec, Task(task.pathspec))>>
                 /\ task' = Task(task.pathspec)
                 /\ pc' = "L201"
                 /\ UNCHANGED outcome
       ELSE IF task.type # "Task"
            THEN /\ outcome' = Raise("IncorrectArguementException", task.type)
                 /\ pc' = "raised"
                 /\ UNCHANGED <<task, calls>>
            ELSE /\ pc' = "L201"
                 /\ UNCHANGED <<task, calls, outcome>>
    /\ UNCHANGED <<arg_task, card_id, arg_type, follow_resumed, origin_bound,
                   origin_taskpathspec, flow_datastore, resolved>>
    /\ UNCHANGED <<container_vars, card_vars>>

\* Lines 201-204
FollowResumed ==
    /\ pc = "L201"
    /\ IF follow_resumed
       THEN \E r \in ResumedInfos :
                /\ origin_bound' = TRUE
                /\ origin_taskpathspec' = r
                /\ task' = Redirect(task, r)
                /\ calls' = calls \o <<Call("resumed_info", task.pathspec, r)>>
                      \o (IF Truthy(r) THEN <<Call("Task", Val(r), task')>> ELSE <<>>)
       ELSE UNCHANGED <<origin_bound, origin_taskpathspec, task, calls>>
    /\ pc' = "L206"
    /\ UNCHANGED <<arg_task, card_id, arg_type, follow_resumed, flow_datastore,
                   resolved, outcome>>
    /\ UNCHANGED <<container_vars, card_vars>>

\* Line 207, first argument: _get_flow_datastore(task)
ResolveDatastore ==
    /\ pc = "L206"
    /\ \E metadata \in MetaLists, storage_root \in StorageRoots :
          LET r == GetFlowDatastore(task, metadata, storage_root)
          IN /\ calls' = calls \o r.calls
             /\ flow_datastore' = r.value
             /\ IF r.raised
                THEN /\ outcome' = Raise("UnresolvableDatastoreException", task)
                     /\ pc' = "raised"
                ELSE /\ pc' = "L207"
                     /\ UNCHANGED outcome
    /\ UNCHANGED <<arg_task, card_id, arg_type, follow_resumed, task, origin_bound,
                   origin_taskpathspec, resolved>>
    /\ UNCHANGED <<container_vars, card_vars>>

\* Lines 206-208: resolve_paths_from_task
ResolvePaths ==
    /\ pc = "L207"
    /\ \E card_paths \in PathLists :
          LET card_ds == CardDatastore(Val(flow_datastore), task.pathspec)
              a == [flow_datastore |-> Val(flow_datastore), pathspec |-> task.pathspec,
                    type |-> arg_type, card_id |-> card_id]
          IN /\ resolved' = Some([card_paths |-> card_paths, card_ds |-> card_ds])
             /\ calls' = calls \o <<Call("resolve_paths_from_task", a, Val(resolved'))>>
    /\ pc' = "L209"
    /\ UNCHANGED <<arg_task, card_id, arg_type, follow_resumed, task, origin_bound,
                   origin_taskpathspec, flow_datastore, outcome>>
    /\ UNCHANGED <<container_vars, card_vars>>

\* Lines 209-214: reading an unbound local raises UnboundLocalError.
ReturnContainer ==
    /\ pc = "L209"
    /\ IF ~origin_bound
       THEN /\ outcome' = Raise("UnboundLocalError", "origin_taskpathspec")
            /\ pc' = "raised"
            /\ UNCHANGED <<container, ctor>>
       ELSE /\ container' = Some(CardContainerInit(Val(resolved).card_paths,
                                                   Val(resolved).card_ds,
                                                   FromResumed(origin_taskpathspec),
                                                   origin_taskpathspec))
            /\ ctor' = Some(CtorArgs(Val(resolved).card_paths,
                                     FromResumed(origin_taskpathspec),
                                     origin_taskpathspec))
            /\ outcome' = Returned
            /\ pc' = "returned"
    /\ UNCHANGED <<arg_task, card_id, arg_type, follow_resumed, task, origin_bound,
                   origin_taskpathspec, flow_datastore, resolved, calls>>
    /\ UNCHANGED <<iters, last, card_vars>>

Next ==
    \/ Normalize
    \/ FollowResumed
    \/ ResolveDatastore
    \/ ResolvePaths
    \/ ReturnContainer

Spec == Init /\ [][Next]_vars

----------------------------------------------------------------------------
\* Properties of get_cards (Spec)

\* The positions of the calls of `fn` in the log.
Idx(fn) == {i \in DOMAIN calls : calls[i].fn = fn}

Min(S) == CHOOSE x \in S : \A y \in S : x <= y

\* C3: an invalid task reference is rejected before any collaborator is
\* touched: a string that does not split into exactly 4 components ends in
\* IncorrectPathspecException carrying the string, a value that is neither a
\* str nor a Task ends in IncorrectArguementException carrying its type, and
\* in both cases the log of collaborator calls is empty; a valid reference
\* ends in neither.
C3_InvalidRejectedFirst ==
    LET badStr == arg_task.type = "str" /\ Len(Split(arg_task.pathspec)) # 4
        badObj == arg_task.type \notin {"str", "Task"}
    IN pc # "L189" =>
          /\ badStr => /\ pc = "raised"
                       /\ outcome.exc = "IncorrectPathspecException"
                       /\ outcome.payload = Some(arg_task)
                       /\ calls = <<>>
          /\ badObj => /\ pc = "raised"
                       /\ outcome.exc = "IncorrectArguementException"
                       /\ outcome.payload = Some(arg_task.type)
                       /\ calls = <<>>
          /\ (~badStr /\ ~badObj) =>
                outcome.exc \notin {"IncorrectPathspecException",
                                    "IncorrectArguementException"}

\* A string of 5 components was rejected.
C3_Witness ==
    /\ pc = "raised"
    /\ arg_task.type = "str"
    /\ Len(Split(arg_task.pathspec)) = 5
    /\ outcome.exc = "IncorrectPathspecException"
    /\ calls = <<>>

\* C4: when follow_resumed is set and resumed_info returned an origin
\* pathspec O, the handle is re-pointed to Task(O) before anything else is
\* looked up: every metadata scan is of O, the flow name is that of O,
\* resolve_paths_from_task gets pathspec O, and the calls come in the order
\* redirect, datastore resolution, path resolution.
C4_OriginUsedThroughout ==
    (follow_resumed /\ origin_bound /\ Truthy(origin_taskpathspec)) =>
        LET O == Val(origin_taskpathspec)
            redirect == {i \in Idx("Task") : \E r \in Idx("resumed_info") : r < i}
            datastore == Idx("metadata") \cup Idx("get_storage_root")
                         \cup Idx("DATASTORES") \cup Idx("FlowDataStore")
            paths == Idx("resolve_paths_from_task")
        IN /\ redirect # {}
           /\ \A i \in redirect : calls[i].a = O /\ calls[i].ret = Task(O)
           /\ task = Task(O)
           /\ \A i \in Idx("metadata") : calls[i].a = O
           /\ \A i \in Idx("FlowDataStore") : calls[i].a.flow_name = Split(O)[1]
           /\ \A i \in paths :
                 /\ calls[i].a.pathspec = O
                 /\ calls[i].a.flow_datastore.flow_name = Split(O)[1]
           /\ \A i \in redirect, j \in datastore : i < j
           /\ \A j \in datastore, k \in paths : j < k
           /\ pc \in {"L207", "L209", "returned"} => Idx("FlowDataStore") # {}
           /\ pc \in {"L209", "returned"} => paths # {}

\* get_cards returned after a redirect to a task of another flow.
C4_Witness ==
    /\ pc = "returned"
    /\ follow_resumed
    /\ Truthy(origin_taskpathspec)
    /\ Split(arg_task.pathspec)[1] # Split(Val(origin_taskpathspec))[1]

\* C7: when the metadata of the task being resolved has no ds-type entry,
\* get_cards ends in UnresolvableDatastoreException for that task, whatever
\* else the metadata holds, and DATASTORES, FlowDataStore and
\* resolve_paths_from_task are never called; when it has one, the first
\* ds-type entry is the backend that is looked up and used.
C7_NoDsTypeUnresolvable ==
    \A i \in Idx("metadata") :
        LET metadata == calls[i].ret
            types == {k \in DOMAIN metadata : metadata[k].name = "ds-type"}
        IN /\ calls[i].a = task.pathspec
           /\ IF types = {}
              THEN /\ pc = "raised"
                   /\ outcome.exc = "UnresolvableDatastoreException"
                   /\ outcome.payload = Some(task)
                   /\ Idx("DATASTORES") = {}
                   /\ Idx("FlowDataStore") = {}
                   /\ Idx("resolve_paths_from_task") = {}
                   /\ flow_datastore = None
              ELSE LET first == metadata[Min(types)].value
                   IN /\ outcome.exc # "UnresolvableDatastoreException"
                      /\ Idx("DATASTORES") # {}
                      /\ \A j \in Idx("DATASTORES") : calls[j].a = first
                      /\ \A j \in Idx("FlowDataStore") :
                            calls[j].a.storage_impl = DATASTORES(first)

\* The metadata held a ds-root and another entry but no ds-type.
C7_Witness ==
    /\ pc = "raised"
    /\ outcome.exc = "UnresolvableDatastoreException"
    /\ \E i \in Idx("metadata") :
          /\ Len(calls[i].ret) = 2
          /\ \E k \in DOMAIN calls[i].ret : calls[i].ret[k].name = "ds-root"

\* C1: with follow_resumed set, the returned container's from_resumed is true
\* exactly when the handle was re-pointed to an origin task, origin_pathspec
\* is then what resumed_info returned, and when resumed_info returned none
\* from_resumed is false and origin_pathspec is none.
C1_FromResumedIffRedirected ==
    (pc = "returned" /\ follow_resumed) =>
        LET info == calls[Min(Idx("resumed_info"))].ret
            redirected == \E i \in Idx("Task") : i > Min(Idx("resumed_info"))
            c == Val(container)
        IN /\ c.from_resumed <=> redirected
           /\ redirected => c.origin_pathspec = info
           /\ info = None => (~c.from_resumed /\ c.origin_pathspec = None)

\* C2: with follow_resumed false, a valid task reference whose metadata has
\* a ds-type entry makes get_cards return a container with from_resumed false
\* and origin_pathspec none, resolved against the given task, without a call
\* of resumed_info.
C2_NoFollowReturns ==
    (/\ ~follow_resumed
     /\ pc \in {"raised", "returned"}
     /\ \E i \in Idx("metadata") :
           \E k \in DOMAIN calls[i].ret : calls[i].ret[k].name = "ds-type") =>
        /\ Idx("resumed_info") = {}
        /\ \A i \in Idx("metadata") : calls[i].a = arg_task.pathspec
        /\ \A i \in Idx("resolve_paths_from_task") :
              calls[i].a.pathspec = arg_task.pathspec
        /\ pc = "returned"
        /\ outcome.kind = "return"
        /\ container # None
        /\ ~Val(container).from_resumed
        /\ Val(container).origin_pathspec = None

\* C9: the ds_root FlowDataStore is constructed with is never None: it is
\* get_storage_root's answer when that is defined, and otherwise the ds-root
\* entry joined with the card suffix.
C9_RootNeverNone ==
    \A i \in Idx("FlowDataStore") :
        LET storage_root == calls[Min(Idx("get_storage_root"))].ret
            metadata == calls[Min(Idx("metadata"))].ret
            ds_root == calls[i].a.ds_root
        IN /\ ds_root # None
           /\ storage_root # None => ds_root = storage_root
           /\ storage_root = None =>
                 \E k \in DOMAIN metadata :
                    /\ metadata[k].name = "ds-root"
                    /\ ds_root = Some(PathJoin(metadata[k].value,
                                               DATASTORE_CARD_SUFFIX))

----------------------------------------------------------------------------
\* One CardContainer

\* The (from_resumed, origin_pathspec) pairs of lines 212-213.
ResumeArgs == {<<FromResumed(o), o>> : o \in ResumedInfos}

\* The card datastore of the containers of SpecContainer and SpecCard.
TheCardDs ==
    CardDatastore(FlowDataStore(<<"a">>, None, "LocalStorage", Some(<<"/", "cards">>)),
                  <<"a", "/", "/", "/">>)

Indices == (0 - MaxPaths - 1) .. (MaxPaths + 1)

GetCardsIdle ==
    /\ pc = "idle"
    /\ arg_task = Other("NoneType")
    /\ task = arg_task
    /\ card_id = None
    /\ arg_type = None
    /\ follow_resumed = TRUE
    /\ origin_bound = FALSE
    /\ origin_taskpathspec = None
    /\ flow_datastore = None
    /\ resolved = None
    /\ calls = <<>>
    /\ outcome = Running

InitContainer ==
    /\ GetCardsIdle
    /\ NoCard
    /\ \E card_paths \in PathLists, ra \in ResumeArgs :
          /\ container = Some(CardContainerInit(card_paths, TheCardDs, ra[1], ra[2]))
          /\ ctor = Some(CtorArgs(card_paths, ra[1], ra[2]))
    /\ iters = <<>>
    /\ last = Op("init", 0, NoResult)

\* CardContainer.__len__
ContainerLen ==
    /\ last' = Op("len", 0, [NoResult EXCEPT !.value = Some(Val(container)._high)])
    /\ UNCHANGED <<container, ctor, iters>>
    /\ UNCHANGED <<getcards_vars, card_vars>>

\* CardContainer.__getitem__
ContainerGetItem ==
    /\ \E index \in Indices :
          last' = Op("getitem", index, GetCard(Val(container), index))
    /\ UNCHANGED <<container, ctor, iters>>
    /\ UNCHANGED <<getcards_vars, card_vars>>

\* CardContainer.__iter__: a new generator; none of its body has run yet.
ContainerIter ==
    /\ Len(iters) < MaxIters
    /\ iters' = Append(iters, NewGenerator)
    /\ last' = Op("iter", Len(iters) + 1, NoResult)
    /\ UNCHANGED <<container, ctor>>
    /\ UNCHANGED <<getcards_vars, card_vars>>

\* next() on one of the generators
ContainerIterNext ==
    /\ \E i \in 1..Len(iters) :
          LET r == GenNext(Val(container), iters[i])
          IN /\ iters' = [iters EXCEPT ![i] = r.gen]
             /\ last' = Op("next", i, r.result)
    /\ UNCHANGED <<container, ctor>>
    /\ UNCHANGED <<getcards_vars, card_vars>>

\* CardContainer._repr_html_
ContainerRepr ==
    /\ \E fetches \in [1..Len(Val(container)._card_paths) -> FetchOutcomes] :
          last' = Op("repr", 0, ContainerReprHtml(Val(container), fetches))
    /\ UNCHANGED <<container, ctor, iters>>
    /\ UNCHANGED <<getcards_vars, card_vars>>

NextContainer ==
    \/ ContainerLen
    \/ ContainerGetItem
    \/ ContainerIter
    \/ ContainerIterNext
    \/ ContainerRepr

SpecContainer == InitContainer /\ [][NextContainer]_vars

----------------------------------------------------------------------------
\* One Card

\* A Card as _get_card builds it (html None), or built directly with its html.
InitCard ==
    /\ GetCardsIdle
    /\ NoContainer
    /\ \E path \in CardPaths, html \in {None} \cup {Some(h) : h \in HtmlValues},
          ra \in ResumeArgs :
          LET card_info == CardInfoFromPath(path)
          IN card = Some(CardInit(TheCardDs, card_info.type, path, card_info.hash,
                                  card_info.id, html, None, ra[1], ra[2]))
    /\ html_calls = <<>>
    /\ got = <<>>
    /\ ops = 0

\* What one operation on the card leaves behind.
CardStep(op, r, fetch) ==
    /\ card' = Some(r.card)
    /\ html_calls' = IF r.fetched THEN Append(html_calls, fetch) ELSE html_calls
    /\ got' = IF r.raised THEN got ELSE Append(got, Val(r.html))
    /\ ops' = ops + 1
    /\ last' = Op(op, 0, [raised |-> IF r.raised THEN "StorageError" ELSE "",
                          value |-> r.ret, cards |-> <<>>,
                          calls |-> IF r.fetched
                                    THEN <<Call("get_card_html", r.card._path, fetch)>>
                                    ELSE <<>>])
    /\ UNCHANGED <<container, ctor, iters>>
    /\ UNCHANGED getcards_vars

\* Card.get
CardGetCall ==
    /\ ops < MaxOps
    /\ \E fetch \in FetchOutcomes : CardStep("get", CardGet(Val(card), fetch), fetch)

\* Card.view
CardViewCall ==
    /\ ops < MaxOps
    /\ \E fetch \in FetchOutcomes : CardStep("view", CardView(Val(card), fetch), fetch)

\* Card._repr_html_
CardReprCall ==
    /\ ops < MaxOps
    /\ \E fetch \in FetchOutcomes : CardStep("_repr_html_", CardReprHtml(Val(card), fetch, ops), fetch)

NextCard ==
    \/ CardGetCall
    \/ CardViewCall
    \/ CardReprCall

SpecCard == InitCard /\ [][NextCard]_vars

----------------------------------------------------------------------------
\* Properties of CardContainer (SpecContainer)

\* The cards every generator has yielded so far.
Yielded == UNION {{iters[i].yielded[k] : k \in DOMAIN iters[i].yielded} : i \in DOMAIN iters}

\* C5 as stated: after any operations, len is the number n of constructed
\* paths, an index >= n fails with IndexError, and every integer index < n
\* returns a Card (with the path of that position when the index is >= 0).
C5_AnyIndexBelowLenReturnsCard ==
    LET paths == Val(ctor).card_paths
        n == Len(paths)
    IN /\ last.op = "len" => last.value = Some(n)
       /\ last.op = "getitem" =>
             /\ last.index >= n => last.raised = "IndexError"
             /\ last.index < n =>
                   /\ last.raised = ""
                   /\ last.value # None
                   /\ last.index >= 0 => Val(last.value)._path = paths[last.index + 1]

\* C5 amended: after any operations, len is the number n of constructed
\* paths; an index >= n or < -n fails with IndexError; an index in 0 .. n-1
\* returns a Card with the path of that position, and an index in -n .. -1
\* the Card with the path of position n + index.
C5_IndexInRangeReturnsCard ==
    LET paths == Val(ctor).card_paths
        n == Len(paths)
    IN /\ Val(container)._high = n
       /\ last.op = "len" => (last.raised = "" /\ last.value = Some(n))
       /\ last.op = "getitem" =>
             /\ (last.index >= n \/ last.index < 0 - n) =>
                   (last.raised = "IndexError" /\ last.value = None)
             /\ (0 <= last.index /\ last.index < n) =>
                   /\ last.raised = ""
                   /\ last.value # None
                   /\ Val(last.value)._path = paths[last.index + 1]
             /\ (0 - n <= last.index /\ last.index < 0) =>
                   /\ last.raised = ""
                   /\ last.value # None
                   /\ Val(last.value)._path = paths[n + last.index + 1]

\* After an iteration was started, the last position of a container of two
\* different paths was indexed.
C5_Witness ==
    /\ last.op = "getitem"
    /\ Len(Val(ctor).card_paths) >= 2
    /\ Val(ctor).card_paths[1] # Val(ctor).card_paths[2]
    /\ last.index = Len(Val(ctor).card_paths) - 1
    /\ last.raised = ""
    /\ iters # <<>>

\* C8: every generator of a container of n paths yields Cards whose paths
\* are the constructed paths in order and ends after exactly n of them,
\* whatever the other generators have done; a Card is built from one
\* card_info_from_path call for its path made by the next() that yields it;
\* __iter__ and next() never call get_card_html; and the container's paths,
\* length, from_resumed and origin_pathspec stay as constructed.
C8_IterationYieldsPathsInOrder ==
    LET c == Val(container)
        a == Val(ctor)
        n == Len(a.card_paths)
    IN /\ c._card_paths = a.card_paths
       /\ c._high = n
       /\ c.from_resumed = a.from_resumed
       /\ c.origin_pathspec = a.origin_pathspec
       /\ \A i \in DOMAIN iters :
             LET g == iters[i]
             IN /\ Len(g.yielded) <= n
                /\ g.pos = Len(g.yielded)
                /\ g.done => Len(g.yielded) = n
                /\ \A k \in DOMAIN g.yielded :
                      LET cd == g.yielded[k]
                          info == CardInfoFromPath(a.card_paths[k])
                      IN /\ cd._path = a.card_paths[k]
                         /\ cd.type = info.type
                         /\ cd.hash = info.hash
                         /\ cd._card_id = info.id
                         /\ cd._html = None
       /\ last.op = "iter" =>
             (last.calls = <<>> /\ iters[last.index].yielded = <<>>)
       /\ last.op = "next" =>
             LET g == iters[last.index]
             IN IF last.raised = ""
                THEN /\ g.yielded # <<>>
                     /\ last.value = Some(g.yielded[Len(g.yielded)])
                     /\ Len(last.calls) = 1
                     /\ last.calls[1].fn = "card_info_from_path"
                     /\ last.calls[1].a = a.card_paths[Len(g.yielded)]
                ELSE /\ last.raised = "StopIteration"
                     /\ last.calls = <<>>
                     /\ g.done

\* One generator has gone through both of two different paths and ended
\* while a second one, started later, has yielded only the first.
C8_Witness ==
    /\ Len(iters) = 2
    /\ Len(Val(ctor).card_paths) = 2
    /\ Val(ctor).card_paths[1] # Val(ctor).card_paths[2]
    /\ iters[1].done
    /\ Len(iters[1].yielded) = 2
    /\ Len(iters[2].yielded) = 1
    /\ last.op = "next"
    /\ last.index = 2

\* C10: every Card a container materializes (by indexing, iteration or
\* notebook rendering) has the container's from_resumed and origin_pathspec.
C10_CardsCarryResumeInfo ==
    \A cd \in Yielded \cup {last.cards[k] : k \in DOMAIN last.cards} :
        /\ cd.from_resumed = Val(container).from_resumed
        /\ cd.origin_pathspec = Val(container).origin_pathspec

----------------------------------------------------------------------------
\* Properties of Card (SpecCard)

\* C6: over any calls of get(), view() and _repr_html_() on a Card,
\* get_card_html returns at most once, and is called at most once when none
\* of its calls raised; nothing is fetched after it has returned or when the
\* Card was built with its html; every get() returns the same string, which
\* is the cached body, and the cached body is what get_card_html returned.
C6_HtmlFetchedAtMostOnce ==
    LET cd == Val(card)
        returned == {i \in DOMAIN html_calls : ~html_calls[i].raised}
    IN /\ Cardinality(returned) <= 1
       /\ (\A i \in DOMAIN html_calls : ~html_calls[i].raised) => Len(html_calls) <= 1
       /\ \A i \in returned :
             (i = Len(html_calls) /\ cd._html = Some(html_calls[i].value))
       /\ \A i, j \in DOMAIN got : got[i] = got[j]
       /\ got # <<>> => cd._html = Some(got[1])
       /\ (got # <<>> /\ returned = {}) => html_calls = <<>>
       /\ (last.op = "get" /\ last.raised = "") => last.value = cd._html

\* An empty body was fetched once and then served twice from the cache.
C6_Witness ==
    /\ Len(got) = 3
    /\ Len(html_calls) = 1
    /\ html_calls[1].value = <<>>
    /\ ~html_calls[1].raised
    /\ last.op = "get"

====
